---- MODULE Spec2Model ----
(***************************************************************************)
(* Model of the batch-trial harness:                                       *)
(*   scripts/run_zql_batch.py      the Trial Runner (grid loop, fail-fast)  *)
(*   scripts/parse_zql_results.py  the Result Aggregator (log scraping)     *)
(* Strings are sequences of one-character strings, so that formatting,     *)
(* pattern matching, parsing and path sorting are computed, not assumed.   *)
(***************************************************************************)
EXTENDS Integers, Sequences, FiniteSets, TLC

VARIABLES
    \* ---- Trial Runner (run_zql_batch.py) ----
    rpc,          \* position of main(): "loop", "opened", "running", "returned", "exited"
    repeat,       \* outer loop variable
    pos,          \* position of the inner loop in instance_range (1-based)
    opened,       \* log file paths opened for writing, in order
    invoked,      \* cells <<repeat, i>> whose child was started, in order
    running,      \* cells whose child process is alive
    returncodes,  \* result.returncode of each finished child, in order
    runner_exit   \* exit status of the Runner process ("none" while it runs)

VARIABLES
    \* ---- Result Aggregator (parse_zql_results.py) ----
    apc,          \* position of main(): "idle", "scan", "scanned", "exited"
    dir,          \* the log directory: file name |-> [readable, content]
    log_files,    \* sorted(log_dir.glob("behavior_log_*.log"))
    parsed,       \* what parse_log_file returned for each file so far, in order
    results,      \* the list main() appends to
    stderr,       \* diagnostic lines written so far
    report,       \* <<>> until the report is printed, then <<the report>>
    agg_exit      \* exit status of the Aggregator process ("none" while it runs)

runner_vars == <<rpc, repeat, pos, opened, invoked, running, returncodes, runner_exit>>

agg_vars == <<apc, dir, log_files, parsed, results, stderr, report, agg_exit>>

vars == <<runner_vars, agg_vars>>

----------------------------------------------------------------------------
(* Characters and strings *)

\* The characters used, in ASCII order (the order str and Path comparison use).
Alphabet ==
    << " ", ".", "0", "1", "2", "3", "4", "5", "6", "7", "8", "9", "_",
       "a", "b", "e", "g", "h", "i", "l", "o", "r", "t", "v", "x" >>

Code(c) == CHOOSE k \in 1..Len(Alphabet) : Alphabet[k] = c

DigitChars == <<"0", "1", "2", "3", "4", "5", "6", "7", "8", "9">>

DigitSet == {DigitChars[d] : d \in 1..10}

IsDigit(c) == c \in DigitSet

DigitValue(c) == (CHOOSE d \in 1..10 : DigitChars[d] = c) - 1

\* str(n) for a non-negative int, as the f-strings format repeat and i.
RECURSIVE Str(_)
Str(n) == IF n < 10 THEN <<DigitChars[n + 1]>>
          ELSE Str(n \div 10) \o <<DigitChars[(n % 10) + 1]>>

NamePrefix == <<"b", "e", "h", "a", "v", "i", "o", "r", "_", "l", "o", "g", "_">>

NameSuffix == <<".", "l", "o", "g">>

----------------------------------------------------------------------------
(* Trial Runner: scripts/run_zql_batch.py *)

outer_repeats == 4

RangeStart == 10

RangeStop == 19

\* range(10, 19) as the sequence the for loop walks.
instance_range == [k \in 1..(RangeStop - RangeStart) |-> RangeStart + k - 1]

\* The name of log_file (the directory part is the same for every file).
LogFileNoRepeat(r, i) == NamePrefix \o Str(i) \o NameSuffix

log_file(r, i) == NamePrefix \o Str(r) \o <<"_">> \o Str(i) \o NameSuffix

\* What subprocess.run can report on POSIX: an exit status 0..255, or -N for a
\* child killed by signal N (1..64).
ChildReturnCodes == (-64) .. 255

\* sys.exit(n): the process exit status is the low 8 bits of n.
ExitStatus(n) == n % 256

Cell == <<repeat, instance_range[pos]>>

\* The Aggregator is a separate program: it is not running during a batch.
AggregatorIdle ==
    /\ apc = "idle"
    /\ dir = <<>>
    /\ log_files = <<>>
    /\ parsed = <<>>
    /\ results = <<>>
    /\ stderr = <<>>
    /\ report = <<>>
    /\ agg_exit = "none"

RunnerInit ==
    /\ AggregatorIdle
    /\ rpc = "loop"
    /\ repeat = 0
    /\ pos = 1
    /\ opened = <<>>
    /\ invoked = <<>>
    /\ running = {}
    /\ returncodes = <<>>
    /\ runner_exit = "none"

\* with open(log_file, "w") as f: the file is created or truncated.
OpenLog ==
    /\ rpc = "loop"
    /\ repeat < outer_repeats
    /\ opened' = Append(opened, log_file(Cell[1], Cell[2]))
    /\ rpc' = "opened"
    /\ UNCHANGED <<repeat, pos, invoked, running, returncodes, runner_exit>>
    /\ UNCHANGED agg_vars

\* open() raises OSError: nothing catches it, the interpreter exits with status 1.
OpenFails ==
    /\ rpc = "loop"
    /\ repeat < outer_repeats
    /\ rpc' = "exited"
    /\ runner_exit' = 1
    /\ UNCHANGED <<repeat, pos, opened, invoked, running, returncodes>>
    /\ UNCHANGED agg_vars

\* subprocess.run(...) starts the child.
StartChild ==
    /\ rpc = "opened"
    /\ invoked' = Append(invoked, Cell)
    /\ running' = running \cup {Cell}
    /\ rpc' = "running"
    /\ UNCHANGED <<repeat, pos, opened, returncodes, runner_exit>>
    /\ UNCHANGED agg_vars

\* subprocess.run(...) returns once the child has ended; the with block closes f.
ChildExits ==
    /\ rpc = "running"
    /\ \E code \in ChildReturnCodes :
          returncodes' = Append(returncodes, code)
    /\ running' = running \ {Cell}
    /\ rpc' = "returned"
    /\ UNCHANGED <<repeat, pos, opened, invoked, runner_exit>>
    /\ UNCHANGED agg_vars

\* A slip that drops the check of the return code.
CheckReturnCodeIgnoring ==
    /\ rpc = "returned"
    /\ rpc' = "loop"
    /\ IF pos < Len(instance_range)
         THEN pos' = pos + 1 /\ repeat' = repeat
         ELSE pos' = 1 /\ repeat' = repeat + 1
    /\ UNCHANGED <<opened, invoked, running, returncodes, runner_exit>>
    /\ UNCHANGED agg_vars

\* if result.returncode != 0: sys.exit(result.returncode); else the next cell.
CheckReturnCode ==
    /\ rpc = "returned"
    /\ IF returncodes[Len(returncodes)] # 0
         THEN /\ rpc' = "exited"
              /\ runner_exit' = ExitStatus(returncodes[Len(returncodes)])
              /\ UNCHANGED <<repeat, pos>>
         ELSE /\ rpc' = "loop"
              /\ runner_exit' = runner_exit
              /\ IF pos < Len(instance_range)
                   THEN pos' = pos + 1 /\ repeat' = repeat
                   ELSE pos' = 1 /\ repeat' = repeat + 1
    /\ UNCHANGED <<opened, invoked, running, returncodes>>
    /\ UNCHANGED agg_vars

\* Both loops are exhausted: main() returns and the process exits with status 0.
RunnerFinish ==
    /\ rpc = "loop"
    /\ repeat >= outer_repeats
    /\ rpc' = "exited"
    /\ runner_exit' = 0
    /\ UNCHANGED <<repeat, pos, opened, invoked, running, returncodes>>
    /\ UNCHANGED agg_vars

RunnerNext ==
    \/ OpenLog
    \/ OpenFails
    \/ StartChild
    \/ ChildExits
    \/ CheckReturnCode
    \/ RunnerFinish

RunnerSpec == RunnerInit /\ [][RunnerNext]_vars

----------------------------------------------------------------------------
(* Result Aggregator: scripts/parse_zql_results.py *)

None == <<>>

Whitespace == {" "}

\* Length of the longest run of characters of the class that starts at p.
RunLength(s, p, class) ==
    LET stops == {q \in p..Len(s) : s[q] \notin class}
    IN  IF stops = {} THEN Len(s) + 1 - p
        ELSE (CHOOSE q \in stops : \A q2 \in stops : q <= q2) - p

StartsWithAt(s, p, lit) ==
    /\ p + Len(lit) - 1 <= Len(s)
    /\ \A k \in 1..Len(lit) : s[p + k - 1] = lit[k]

\* behavior_log_(\d+)_(\d+)\.log tried at position p of the name: the two groups,
\* or None.
NameMatchAt(name, p) ==
    IF ~StartsWithAt(name, p, NamePrefix) THEN None
    ELSE LET p1 == p + Len(NamePrefix)
             n1 == RunLength(name, p1, DigitSet)
             p2 == p1 + n1 + 1
             n2 == RunLength(name, p2, DigitSet)
         IN  IF /\ n1 >= 1
                /\ StartsWithAt(name, p1 + n1, <<"_">>)
                /\ n2 >= 1
                /\ StartsWithAt(name, p2 + n2, NameSuffix)
             THEN <<SubSeq(name, p1, p1 + n1 - 1), SubSeq(name, p2, p2 + n2 - 1)>>
             ELSE None

\* re.search(r"behavior_log_(\d+)_(\d+)\.log", log_path.name): the leftmost match.
NameSearch(name) ==
    LET hits == {p \in 1..Len(name) : NameMatchAt(name, p) # None}
    IN  IF hits = {} THEN None
        ELSE NameMatchAt(name, CHOOSE p \in hits : \A p2 \in hits : p <= p2)

\* A log text is a sequence of lines; a line is a label (one of the three marker
\* labels, or "" for any other text) and the characters that follow it.
SuccessTrialsLabel == "Total success trials:"

TotalTrialsLabel == "Total trials:"

SuccessRateLabel == "Success rate:"

\* label\s*(class+) tried on one line: the group, or None.
LineCapture(line, label, class) ==
    IF line.label # label THEN None
    ELSE LET p == 1 + RunLength(line.rest, 1, Whitespace)
             n == RunLength(line.rest, p, class)
         IN  IF n >= 1 THEN SubSeq(line.rest, p, p + n - 1) ELSE None

\* re.search(label + r"\s*(class+)", content): the group of the first match, or None.
ContentSearch(content, label, class) ==
    LET hits == {k \in 1..Len(content) : LineCapture(content[k], label, class) # None}
    IN  IF hits = {} THEN None
        ELSE LineCapture(content[CHOOSE k \in hits : \A k2 \in hits : k <= k2],
                         label, class)

DigitOrDotSet == DigitSet \cup {"."}

\* int(s) for a string of decimal digits.
RECURSIVE IntOf(_)
IntOf(s) == IF s = <<>> THEN 0
            ELSE 10 * IntOf(SubSeq(s, 1, Len(s) - 1)) + DigitValue(s[Len(s)])

Digits(s) == SelectSeq(s, IsDigit)

RECURSIVE Pow10(_)
Pow10(n) == IF n = 0 THEN 1 ELSE 10 * Pow10(n - 1)

\* float(s) accepts a string of digits and dots only with at most one dot and
\* at least one digit; otherwise it raises ValueError.
FloatAccepts(s) ==
    /\ Len(s) - Len(Digits(s)) <= 1
    /\ Len(Digits(s)) >= 1

\* float(s) as the fraction num/den.
FloatOf(s) ==
    LET dots == {p \in 1..Len(s) : s[p] = "."}
        frac == IF dots = {} THEN 0 ELSE Len(s) - (CHOOSE p \in dots : TRUE)
    IN  [num |-> IntOf(Digits(s)), den |-> Pow10(frac)]

Diagnostic(name, what) == [file |-> name, error |-> what]

\* A slip: `or` for `and` in the test of the three matches.
MarkersFoundAny(s, t, r) == s # None \/ t # None \/ r # None

\* success_trials_match and total_trials_match and success_rate_match
MarkersFound(s, t, r) == s # None /\ t # None /\ r # None

\* parse_log_file(log_path): [result: None or <<record>>, diag: lines it prints].
\* The whole body runs under try/except Exception: a failed open or read, a
\* .group() on a match that is None (AttributeError) and a float() of a string
\* that is no number (ValueError) each print one "Error parsing" line and give
\* None; the two early returns give None and print nothing.
parse_log_file(name, file) ==
    IF ~file.readable
    THEN [result |-> None, diag |-> <<Diagnostic(name, "OSError")>>]
    ELSE
    LET match == NameSearch(name)
        success_trials_match == ContentSearch(file.content, SuccessTrialsLabel, DigitSet)
        total_trials_match   == ContentSearch(file.content, TotalTrialsLabel, DigitSet)
        success_rate_match   == ContentSearch(file.content, SuccessRateLabel, DigitOrDotSet)
    IN  IF match = None THEN [result |-> None, diag |-> <<>>]
        ELSE IF ~MarkersFound(success_trials_match, total_trials_match, success_rate_match)
        THEN [result |-> None, diag |-> <<>>]
        ELSE IF \/ success_trials_match = None
                \/ total_trials_match = None
                \/ success_rate_match = None
        THEN [result |-> None, diag |-> <<Diagnostic(name, "AttributeError")>>]
        ELSE IF ~FloatAccepts(success_rate_match)
        THEN [result |-> None, diag |-> <<Diagnostic(name, "ValueError")>>]
        ELSE [result |-> << [repeat         |-> IntOf(match[1]),
                             instance       |-> IntOf(match[2]),
                             success_trials |-> IntOf(success_trials_match),
                             total_trials   |-> IntOf(total_trials_match),
                             success_rate   |-> FloatOf(success_rate_match)] >>,
              diag |-> <<>>]

\* sorted(s, key=lambda x: x["repeat"]), stable as Python's sort is: the element
\* at j goes after every one of a smaller repeat and after every one of the same
\* repeat to its left.
SortedByRepeat(s) ==
    LET n == Len(s)
        Rank(j) == 1 + Cardinality({m \in 1..n :
                        \/ s[m].repeat < s[j].repeat
                        \/ (s[m].repeat = s[j].repeat /\ m < j)})
    IN  [p \in 1..n |-> s[CHOOSE j \in 1..n : Rank(j) = p]]

\* Comparison of two path names: character by character, then by length.
PathLess(a, b) ==
    LET m     == IF Len(a) < Len(b) THEN Len(a) ELSE Len(b)
        diffs == {k \in 1..m : a[k] # b[k]}
    IN  IF diffs = {} THEN Len(a) < Len(b)
        ELSE LET d == CHOOSE k \in diffs : \A k2 \in diffs : k <= k2
             IN  Code(a[d]) < Code(b[d])

\* The pattern behavior_log_*.log of log_dir.glob.
GlobMatches(name) ==
    /\ Len(name) >= Len(NamePrefix) + Len(NameSuffix)
    /\ StartsWithAt(name, 1, NamePrefix)
    /\ StartsWithAt(name, Len(name) - Len(NameSuffix) + 1, NameSuffix)

\* sorted(log_dir.glob("behavior_log_*.log")): the names are distinct, so the
\* sorted list does not depend on the order glob yields them in.
SortedGlob(d) ==
    LET found == {name \in DOMAIN d : GlobMatches(name)}
    IN  [p \in 1..Cardinality(found) |->
            CHOOSE x \in found : Cardinality({y \in found : PathLess(y, x)}) = p - 1]

RECURSIVE Sum(_)
Sum(s) == IF s = <<>> THEN 0 ELSE s[1] + Sum(Tail(s))

AddFraction(a, b) == [num |-> a.num * b.den + b.num * a.den, den |-> a.den * b.den]

RECURSIVE SumOfRates(_)
SumOfRates(records) ==
    IF records = <<>> THEN [num |-> 0, den |-> 1]
    ELSE AddFraction(records[1].success_rate, SumOfRates(Tail(records)))

\* A slip: the rate as the mean of the records' own success_rate fields.
RollupMeanOfRates(records) ==
    LET total_success == Sum([k \in 1..Len(records) |-> records[k].success_trials])
        total_trials  == Sum([k \in 1..Len(records) |-> records[k].total_trials])
        sum_rates     == SumOfRates(records)
    IN  [success |-> total_success,
         total   |-> total_trials,
         rate    |-> [num |-> sum_rates.num, den |-> sum_rates.den * Len(records)]]

\* sum(r["success_trials"]), sum(r["total_trials"]) and
\* (success / total * 100) if total > 0 else 0.0, the rate as a fraction num/den.
Rollup(records) ==
    LET total_success == Sum([k \in 1..Len(records) |-> records[k].success_trials])
        total_trials  == Sum([k \in 1..Len(records) |-> records[k].total_trials])
    IN  [success |-> total_success,
         total   |-> total_trials,
         rate    |-> IF total_trials > 0
                       THEN [num |-> total_success * 100, den |-> total_trials]
                       ELSE [num |-> 0, den |-> 1]]

\* by_instance: instance |-> the records of that instance, in the order of results.
by_instance(rs) ==
    [inst \in {rs[k].instance : k \in 1..Len(rs)} |->
        LET OfInstance(r) == r.instance = inst IN SelectSeq(rs, OfInstance)]

\* sorted(by_instance.keys())
sorted_instances(rs) ==
    LET keys == DOMAIN by_instance(rs)
    IN  [p \in 1..Cardinality(keys) |->
            CHOOSE x \in keys : Cardinality({y \in keys : y < x}) = p - 1]

\* A slip: the group printed in the order of results, without the sort by repeat.
InstanceResultsUnsorted(rs, instance) == by_instance(rs)[instance]

\* sorted(by_instance[instance], key=lambda x: x["repeat"])
InstanceResults(rs, instance) == SortedByRepeat(by_instance(rs)[instance])

TableLine(instance, result) ==
    [instance       |-> instance,
     repeat         |-> result.repeat,
     success_trials |-> result.success_trials,
     total_trials   |-> result.total_trials,
     success_rate   |-> result.success_rate,
     status         |-> IF result.success_rate.num > 0 THEN "SUCCESS" ELSE "FAILED"]

RECURSIVE Concat(_)
Concat(ss) == IF ss = <<>> THEN <<>> ELSE ss[1] \o Concat(Tail(ss))

\* What main() prints once it has results: the table, the per-instance summary
\* and the overall line.
Report(rs) ==
    LET insts == sorted_instances(rs)
    IN  [table |-> Concat([p \in 1..Len(insts) |->
                        LET group == InstanceResults(rs, insts[p])
                        IN  [k \in 1..Len(group) |-> TableLine(insts[p], group[k])]]),
         per_instance |-> [p \in 1..Len(insts) |->
                        LET roll == Rollup(by_instance(rs)[insts[p]])
                        IN  [instance |-> insts[p], success |-> roll.success,
                             total |-> roll.total, rate |-> roll.rate]],
         overall |-> Rollup(rs)]

----------------------------------------------------------------------------
(* The directories main() is run on *)

MaxFiles == 3

MaxLines == 4

Text(s, t, r) ==
    << [label |-> SuccessTrialsLabel, rest |-> <<" ">> \o s],
       [label |-> TotalTrialsLabel,   rest |-> <<" ">> \o t],
       [label |-> SuccessRateLabel,   rest |-> <<" ">> \o r] >>

\* Whole logs: 0 of 0 trials, 5 of 10 trials, a log cut before its rate line, and
\* a log whose rate is followed by a full stop.
LogTexts ==
    { Text(<<"0">>, <<"0">>, <<"0", ".", "0">>),
      Text(<<"5">>, <<"1", "0">>, <<"5", "0", ".", "0">>),
      SubSeq(Text(<<"5">>, <<"1", "0">>, <<"5", "0", ".", "0">>), 1, 2),
      Text(<<"5">>, <<"1", "0">>, <<"5", "0", ".", "0", ".">>) }

Unreadable == [readable |-> FALSE, content |-> <<>>]

Files == {Unreadable} \cup {[readable |-> TRUE, content |-> t] : t \in LogTexts}

OtherName == <<"b", "e", "h", "a", "v", "i", "o", "r", ".", "l", "o", "g">>

FileNames ==
    { log_file(0, 3), log_file(10, 1), log_file(2, 1), log_file(2, 3),
      NamePrefix \o <<"0", "2", "_", "1">> \o NameSuffix,
      NamePrefix \o <<"x">> \o NameSuffix,
      OtherName }

\* The lines single-file directories are built from.
Lines ==
    { [label |-> SuccessTrialsLabel, rest |-> <<" ", "5">>],
      [label |-> SuccessTrialsLabel, rest |-> <<"7">>],
      [label |-> SuccessTrialsLabel, rest |-> <<" ", "x">>],
      [label |-> TotalTrialsLabel,   rest |-> <<" ", "1", "0">>],
      [label |-> SuccessRateLabel,   rest |-> <<" ", "5", "0", ".", "0">>],
      [label |-> SuccessRateLabel,   rest |-> <<" ", ".">>] }

LineTexts == UNION {[1..n -> Lines] : n \in 0..MaxLines}

Directories ==
    UNION {[S -> Files] : S \in {T \in SUBSET FileNames : Cardinality(T) <= MaxFiles}}
    \cup
    UNION {[{name} -> {[readable |-> TRUE, content |-> t] : t \in LineTexts}] :
              name \in {log_file(2, 1), NamePrefix \o <<"x">> \o NameSuffix}}

\* The Runner is a separate program: it is not running during an aggregation.
RunnerIdle ==
    /\ rpc = "idle"
    /\ repeat = 0
    /\ pos = 1
    /\ opened = <<>>
    /\ invoked = <<>>
    /\ running = {}
    /\ returncodes = <<>>
    /\ runner_exit = "none"

\* main() up to the loop: the listing is taken and sorted.
AggregatorInit ==
    /\ RunnerIdle
    /\ dir \in Directories
    /\ log_files = SortedGlob(dir)
    /\ apc = "scan"
    /\ parsed = <<>>
    /\ results = <<>>
    /\ stderr = <<>>
    /\ report = <<>>
    /\ agg_exit = "none"

\* if not log_files: print(..., file=sys.stderr); sys.exit(1)
ExitNoFiles ==
    /\ apc = "scan"
    /\ log_files = <<>>
    /\ stderr' = Append(stderr, Diagnostic(<<>>, "No log files found"))
    /\ agg_exit' = 1
    /\ apc' = "exited"
    /\ UNCHANGED <<dir, log_files, parsed, results, report>>
    /\ UNCHANGED runner_vars

\* A slip: an unreadable file ends the run instead of being skipped.
ParseNextAborting ==
    /\ apc = "scan"
    /\ Len(parsed) < Len(log_files)
    /\ LET path == log_files[Len(parsed) + 1]
           got  == parse_log_file(path, dir[path])
       IN  /\ parsed' = Append(parsed, got.result)
           /\ stderr' = stderr \o got.diag
           /\ results' = IF got.result # None THEN Append(results, got.result[1])
                         ELSE results
           /\ IF got.diag # <<>>
                THEN apc' = "exited" /\ agg_exit' = 1
                ELSE apc' = apc /\ agg_exit' = agg_exit
    /\ UNCHANGED <<dir, log_files, report>>
    /\ UNCHANGED runner_vars

\* One turn of: for log_file in log_files: result = parse_log_file(log_file);
\* if result: results.append(result)
ParseNext ==
    /\ apc = "scan"
    /\ Len(parsed) < Len(log_files)
    /\ LET path == log_files[Len(parsed) + 1]
           got  == parse_log_file(path, dir[path])
       IN  /\ parsed' = Append(parsed, got.result)
           /\ stderr' = stderr \o got.diag
           /\ results' = IF got.result # None THEN Append(results, got.result[1])
                         ELSE results
    /\ UNCHANGED <<dir, log_files, report, apc, agg_exit>>
    /\ UNCHANGED runner_vars

\* A slip: the run goes on to print a report of nothing and ends with status 0.
ExitNoResultsIgnored ==
    /\ apc = "scan"
    /\ log_files # <<>>
    /\ Len(parsed) = Len(log_files)
    /\ results = <<>>
    /\ report' = <<[table |-> <<>>, per_instance |-> <<>>, overall |-> Rollup(results)]>>
    /\ agg_exit' = 0
    /\ apc' = "exited"
    /\ UNCHANGED <<dir, log_files, parsed, results, stderr>>
    /\ UNCHANGED runner_vars

\* if not results: print(..., file=sys.stderr); sys.exit(1)
ExitNoResults ==
    /\ apc = "scan"
    /\ log_files # <<>>
    /\ Len(parsed) = Len(log_files)
    /\ results = <<>>
    /\ stderr' = Append(stderr, Diagnostic(<<>>, "No valid results found in log files"))
    /\ agg_exit' = 1
    /\ apc' = "exited"
    /\ UNCHANGED <<dir, log_files, parsed, results, report>>
    /\ UNCHANGED runner_vars

\* The rest of main(): the report is printed and main() returns (status 0).
PrintReport ==
    /\ apc = "scan"
    /\ log_files # <<>>
    /\ Len(parsed) = Len(log_files)
    /\ results # <<>>
    /\ report' = <<Report(results)>>
    /\ agg_exit' = 0
    /\ apc' = "exited"
    /\ UNCHANGED <<dir, log_files, parsed, results, stderr>>
    /\ UNCHANGED runner_vars

AggregatorNext ==
    \/ ExitNoFiles
    \/ ParseNext
    \/ ExitNoResults
    \/ PrintReport

AggregatorSpec == AggregatorInit /\ [][AggregatorNext]_vars

----------------------------------------------------------------------------
(* Properties of the Trial Runner (checked under RunnerSpec) *)

\* The grid in the order the specification gives: repeat outermost, instance
\* innermost.
GridOrder ==
    [n \in 1..(outer_repeats * Len(instance_range)) |->
        << (n - 1) \div Len(instance_range),
           instance_range[((n - 1) % Len(instance_range)) + 1] >>]

IsPrefixOfGrid(s) ==
    /\ Len(s) <= Len(GridOrder)
    /\ \A k \in 1..Len(s) : s[k] = GridOrder[k]

NoRepeats(s) == \A a, b \in 1..Len(s) : s[a] = s[b] => a = b

\* The children that returned a non-zero code, by their place in the run.
Failing == {k \in 1..Len(returncodes) : returncodes[k] # 0}

\* C1. Fail-fast: the cells invoked are always a prefix of the grid order, and once
\* a child has returned a non-zero code it is the last cell ever invoked: the
\* invoked cells are exactly the prefix that ends at the first failing cell.
C1_FailFast ==
    /\ IsPrefixOfGrid(invoked)
    /\ \A k \in Failing : Len(invoked) = k /\ Len(returncodes) = k
    /\ (rpc = "exited" /\ Failing # {}) =>
          invoked = SubSeq(GridOrder, 1, CHOOSE k \in Failing : TRUE)

\* The Runner has stopped on the failure of the second cell of the first repeat,
\* with the rest of the grid never started.
C1_Witness ==
    /\ rpc = "exited"
    /\ Len(returncodes) = 2
    /\ returncodes[2] # 0
    /\ invoked = <<GridOrder[1], GridOrder[2]>>

\* C2 (as claimed). The Runner ends with status 0 exactly when the whole grid ran
\* and every child returned 0, and when a child failed it ends with exactly the
\* code that child returned, whatever non-zero value that is.
C2_ExitCodeAsClaimed ==
    rpc = "exited" =>
        /\ runner_exit = 0 <=>
              /\ invoked = GridOrder
              /\ Len(returncodes) = Len(invoked)
              /\ Failing = {}
        /\ Failing # {} =>
              runner_exit = returncodes[CHOOSE k \in Failing : \A j \in Failing : k <= j]

\* C8 (as claimed). A run in which every child exits 0 walks the instance indices
\* 0 through 9, four times over: 40 child executions.
C8_DocumentedGrid ==
    (rpc = "exited" /\ runner_exit = 0) =>
        /\ Len(invoked) = 40
        /\ {invoked[k][2] : k \in 1..Len(invoked)} = 0..9
        /\ {invoked[k][1] : k \in 1..Len(invoked)} = 0..3

\* C10. Cells are invoked in grid order, each at most once; a child is started only
\* after every earlier child has exited with code 0; at most one child is alive
\* at any time; no log file path is opened for writing twice.
C10_Sequential ==
    /\ IsPrefixOfGrid(invoked)
    /\ NoRepeats(invoked)
    /\ \A k \in 1..(Len(invoked) - 1) : k <= Len(returncodes) /\ returncodes[k] = 0
    /\ Cardinality(running) <= 1
    /\ NoRepeats(opened)
    /\ Len(opened) <= Len(invoked) + 1

\* The first cell of the second repeat is running: the instances are being walked
\* a second time, into fresh log files.
C10_Witness ==
    /\ rpc = "running"
    /\ Len(invoked) = Len(instance_range) + 1
    /\ running = {<<1, instance_range[1]>>}
    /\ Len(opened) = Len(invoked)

----------------------------------------------------------------------------
(* Properties of the Result Aggregator (checked under AggregatorSpec) *)

FileAt(k) == dir[log_files[k]]

NameParses(k) == NameSearch(log_files[k]) # None

HasSuccessTrials(k) == ContentSearch(FileAt(k).content, SuccessTrialsLabel, DigitSet) # None

HasTotalTrials(k) == ContentSearch(FileAt(k).content, TotalTrialsLabel, DigitSet) # None

HasSuccessRate(k) == ContentSearch(FileAt(k).content, SuccessRateLabel, DigitOrDotSet) # None

HasAllMarkers(k) == HasSuccessTrials(k) /\ HasTotalTrials(k) /\ HasSuccessRate(k)

\* The number of diagnostic lines that name the k-th file of the listing.
DiagnosticsFor(k) ==
    LET NamesIt(d) == d.file = log_files[k] IN Len(SelectSeq(stderr, NamesIt))

\* The records among what parse_log_file returned, in order.
Kept == Concat(parsed)

\* C3. Silent skip: a file that was read, whose name parses, and that lacks one or
\* more of the three markers gives no record and no diagnostic.
C3_SilentSkip ==
    \A k \in 1..Len(parsed) :
        (FileAt(k).readable /\ NameParses(k) /\ ~HasAllMarkers(k)) =>
            parsed[k] = None /\ DiagnosticsFor(k) = 0

\* A file with the success count and the rate but no total count has been parsed.
C3_Witness ==
    \E k \in 1..Len(parsed) :
        /\ FileAt(k).readable
        /\ NameParses(k)
        /\ HasSuccessTrials(k) /\ ~HasTotalTrials(k) /\ HasSuccessRate(k)

\* C4. Unreadable file: it gives no record and exactly one diagnostic naming it, and
\* the run goes on: when main() ends after a scan, every listed file was parsed
\* and every record returned was kept.
C4_UnreadableFile ==
    /\ \A k \in 1..Len(parsed) :
          ~FileAt(k).readable => parsed[k] = None /\ DiagnosticsFor(k) = 1
    /\ results = Kept
    /\ (apc = "exited" /\ log_files # <<>>) => Len(parsed) = Len(log_files)

\* An unreadable file was followed by a file whose record was kept.
C4_Witness ==
    /\ apc = "exited"
    /\ \E k \in 1..(Len(parsed) - 1) :
          /\ ~FileAt(k).readable
          /\ parsed[k + 1] # None
          /\ \E j \in 1..Len(results) : results[j] = parsed[k + 1][1]

\* C5. Exit code: with no matching file, or with no file that gave a record, main()
\* ends with status 1, a diagnostic as the last line of the error stream and no
\* report; otherwise it prints the report and ends with status 0.
C5_AggregatorExit ==
    apc = "exited" =>
        IF log_files = <<>> \/ (\A k \in 1..Len(parsed) : parsed[k] = None)
        THEN /\ agg_exit = 1
             /\ report = <<>>
             /\ stderr # <<>>
             /\ stderr[Len(stderr)].file = <<>>
        ELSE /\ agg_exit = 0
             /\ report # <<>>
             /\ \A d \in 1..Len(stderr) : stderr[d].file # <<>>

\* Files were listed, none gave a record, and main() has ended.
C5_Witness ==
    /\ apc = "exited"
    /\ Len(log_files) >= 2
    /\ \A k \in 1..Len(parsed) : parsed[k] = None
    /\ agg_exit = 1

\* The sum of the values at the places idx of a sequence of numbers.
RECURSIVE SumOver(_, _)
SumOver(values, idx) ==
    IF idx = {} THEN 0
    ELSE LET k == CHOOSE j \in idx : TRUE
         IN  values[k] + SumOver(values, idx \ {k})

SuccessCounts == [k \in 1..Len(results) |-> results[k].success_trials]

TotalCounts == [k \in 1..Len(results) |-> results[k].total_trials]

\* rate = 100 * success / total, or 0 when total is 0.
RateIs(rate, success, total) ==
    IF total = 0 THEN rate.num = 0
    ELSE rate.den # 0 /\ rate.num * total = 100 * success * rate.den

\* C6. Rollups: each instance's success and total are the sums of the counts of
\* that instance's kept records and its rate is 100 * success / total (0 when
\* total is 0); the grand total is the same over all kept records, and equals
\* the sum of the per-instance figures.
C6_RollupsUseSums ==
    report # <<>> =>
        LET rep   == report[1]
            all   == 1..Len(results)
            insts == {results[k].instance : k \in all}
        IN  /\ {rep.per_instance[p].instance : p \in 1..Len(rep.per_instance)} = insts
            /\ Len(rep.per_instance) = Cardinality(insts)
            /\ \A p \in 1..Len(rep.per_instance) :
                  LET e   == rep.per_instance[p]
                      own == {k \in all : results[k].instance = e.instance}
                  IN  /\ e.success = SumOver(SuccessCounts, own)
                      /\ e.total = SumOver(TotalCounts, own)
                      /\ RateIs(e.rate, e.success, e.total)
            /\ rep.overall.success = SumOver(SuccessCounts, all)
            /\ rep.overall.total = SumOver(TotalCounts, all)
            /\ RateIs(rep.overall.rate, rep.overall.success, rep.overall.total)
            /\ rep.overall.success =
                  Sum([p \in 1..Len(rep.per_instance) |-> rep.per_instance[p].success])
            /\ rep.overall.total =
                  Sum([p \in 1..Len(rep.per_instance) |-> rep.per_instance[p].total])

\* An instance with a record of 0 of 0 trials and a record of 5 of 10 trials is
\* reported at 50 percent, beside an instance whose total is 0.
C6_Witness ==
    /\ report # <<>>
    /\ \E p, q \in 1..Len(report[1].per_instance) :
          /\ report[1].per_instance[p].total = 10
          /\ report[1].per_instance[p].success = 5
          /\ report[1].per_instance[p].rate.num = 50 * report[1].per_instance[p].rate.den
          /\ \E k \in 1..Len(results) :
                /\ results[k].instance = report[1].per_instance[p].instance
                /\ results[k].total_trials = 0
          /\ report[1].per_instance[q].total = 0

LineRecord(line) ==
    [repeat         |-> line.repeat,
     instance       |-> line.instance,
     success_trials |-> line.success_trials,
     total_trials   |-> line.total_trials,
     success_rate   |-> line.success_rate]

Count(s, x) == Cardinality({k \in 1..Len(s) : s[k] = x})

\* C7. Report order: the table lines are in ascending instance order and, within an
\* instance, in ascending repeat order, and they are the kept records, each on
\* exactly one line.
C7_ReportOrder ==
    report # <<>> =>
        LET table == report[1].table
            recs  == [k \in 1..Len(table) |-> LineRecord(table[k])]
        IN  /\ \A a, b \in 1..Len(table) :
                  a < b =>
                     \/ table[a].instance < table[b].instance
                     \/ /\ table[a].instance = table[b].instance
                        /\ table[a].repeat <= table[b].repeat
            /\ Len(table) = Len(results)
            /\ \A k \in 1..Len(results) : Count(recs, results[k]) = Count(results, results[k])

\* The report was printed from records that the listing gave in another order:
\* a higher instance before a lower one, and a higher repeat before a lower one
\* of the same instance.
C7_Witness ==
    /\ report # <<>>
    /\ \E a, b \in 1..Len(results) : a < b /\ results[a].instance > results[b].instance
    /\ \E a, b \in 1..Len(results) :
          /\ a < b
          /\ results[a].instance = results[b].instance
          /\ results[a].repeat > results[b].repeat

\* C9 (as claimed). Every file that was read, whose name parses and whose text holds
\* all three markers gives a record carrying its repeat, its instance and the
\* three extracted values, and main() keeps it.
C9_KeepsEveryCompleteFile ==
    \A k \in 1..Len(parsed) :
        (FileAt(k).readable /\ NameParses(k) /\ HasAllMarkers(k)) =>
            /\ parsed[k] # None
            /\ parsed[k][1].repeat = IntOf(NameSearch(log_files[k])[1])
            /\ parsed[k][1].instance = IntOf(NameSearch(log_files[k])[2])
            /\ parsed[k][1].success_trials =
                  IntOf(ContentSearch(FileAt(k).content, SuccessTrialsLabel, DigitSet))
            /\ parsed[k][1].total_trials =
                  IntOf(ContentSearch(FileAt(k).content, TotalTrialsLabel, DigitSet))
            /\ \E j \in 1..Len(results) : results[j] = parsed[k][1]

====
